---- MODULE Spec2Model ----
\* The Active Object of src/main.cpp: DispatchQueue (mutex + queue + condition
\* variable), BecomeActiveObject (worker thread, four public operations,
\* getVal, destructor) and the demonstration main().
EXTENDS Integers, Sequences, FiniteSets, TLC

\* ------------------------------------------------------------------ bounds

\* Calls of the four public operations the caller threads issue in total (Spec).
MaxCalls == 3

\* The same, in the specifications that state fairness (FairSpec,
\* CallerFairSpec), whose temporal properties cost more to check.
MaxCallsFair == 2

\* ------------------------------------------------------------------ constants

Worker == "worker"
Callers == {"main", "t1"}
Threads == Callers \cup {Worker}

Free == "free"

\* A promise that has not been written yet.
Unset == -1
\* The values of the program text.
InitVal == 0
ElseVal == 2
RetVal == 999
RefA == 1234
RefB == 5678
MainA == 1
MainB == 2

\* Initial values a caller may hold in the locals it passes by reference.
LocalPairs == {<<MainA, MainB>>, <<MainB, MainA>>}

OpKinds == {"doSomething", "doSomethingElse", "doSomethingWithParams",
            "doSomethingWithReferenceParams"}
Sentinel == "sentinel"
BlockingKinds == {"doSomething", "doSomethingWithReferenceParams"}

NoOp == [kind |-> "none", owner |-> "none", seq |-> 0]

\* The statements of main(), lines 127-138 (the destructor runs at scope exit).
MainProgram == <<"doSomething", "spawn", "doSomethingWithParams",
                 "doSomethingWithReferenceParams", "join", "getVal", "destruct">>

VARIABLES
    qlock,      \* DispatchQueue::qlock: Free or the thread that owns it
    ops_queue,  \* DispatchQueue::ops_queue
    done,       \* BecomeActiveObject::done
    val,        \* BecomeActiveObject::val
    wpc,        \* the worker's position in run() / take()
    cur,        \* the operation take() returned to run()
    wstep,      \* the next statement of cur's body
    cpc,        \* each caller's position
    ckind,      \* the operation a caller is in
    ncalls,     \* operations a caller has issued
    promise,    \* the caller's local return_val
    la, lb,     \* the caller's locals passed by reference
    rv,         \* what the caller's last value-returning call returned
    started,    \* thread t1 has been started
    joined,     \* thread t1 has been joined
    mpc,        \* statements of main() already issued (MainSpec)
    putOrder,   \* history: operations in the order ops_queue.push ran
    execLog,    \* history: operations in the order the worker began them
    finished,   \* history: operations whose body ran to its end, in order
    valAccess,  \* history: <<thread, context>> of every access to val
    execBy,     \* history: threads that have executed a statement of an operation
    promWrites, \* history: every set_value: by whom, in which operation, on whose promise
    promReads   \* history: every future get() that returned, per reading thread

vars == <<qlock, ops_queue, done, val, wpc, cur, wstep, cpc, ckind, ncalls,
          promise, la, lb, rv, started, joined, mpc, putOrder, execLog,
          finished, valAccess, execBy, promWrites, promReads>>

workerVars == <<wpc, cur, wstep>>
callerVars == <<cpc, ckind, ncalls, promise, la, lb, rv, started, joined, mpc>>
histVars == <<putOrder, execLog, finished, valAccess, execBy, promWrites,
              promReads>>

\* ------------------------------------------------------------------ helpers

SeqToSet(s) == {s[i] : i \in 1..Len(s)}

IsPrefix(s, t) == Len(s) <= Len(t) /\ \A i \in 1..Len(s) : s[i] = t[i]

\* The operation caller t is issuing: its closure, named by the thread and the
\* number of the call in that thread (the destructor's sentinel comes last).
OpOf(t) ==
    [kind |-> ckind[t], owner |-> t,
     seq |-> IF ckind[t] = Sentinel THEN ncalls[t] + 1 ELSE ncalls[t]]

\* ------------------------------------------------------------------ Init

\* BecomeActiveObject(): val(0), done(false), the worker thread started.
InitObject ==
    /\ qlock = Free
    /\ ops_queue = <<>>
    /\ done = FALSE
    /\ val = InitVal
    /\ wpc = "loop"
    /\ cur = NoOp
    /\ wstep = 0
    /\ cpc = [t \in Threads |-> "idle"]
    /\ ckind = [t \in Threads |-> "none"]
    /\ ncalls = [t \in Threads |-> 0]
    /\ promise = [t \in Threads |-> Unset]
    /\ la = [t \in Threads |-> 0]
    /\ lb = [t \in Threads |-> 0]
    /\ rv = [t \in Threads |-> Unset]
    /\ joined = FALSE
    /\ mpc = 0
    /\ putOrder = <<>>
    /\ execLog = <<>>
    /\ finished = <<>>
    /\ valAccess = {}
    /\ execBy = {}
    /\ promWrites = <<>>
    /\ promReads = [t \in Threads |-> <<>>]

\* Any client: both caller threads exist when the object has been constructed.
Init == InitObject /\ started = TRUE

\* main(): t1 is started at line 131.
InitMain == InitObject /\ started = FALSE

\* ------------------------------------------------------------------ DispatchQueue

\* A push that inserts at the head instead of the tail.
PushFront(q, op) == <<op>> \o q

\* std::queue::push: append at the tail.
Push(q, op) == Append(q, op)

\* std::queue::front. (On an empty queue the C++ is undefined; take() never
\* gets there, see WaitPred.)
Front(q) == IF q = <<>> THEN NoOp ELSE Head(q)

\* A take() that forgets to pop.
PopNothing(q) == q

\* std::queue::pop.
Pop(q) == IF q = <<>> THEN <<>> ELSE Tail(q)

\* The predicate of empty.wait(lock, pred): !ops_queue.empty().
WaitPred(q) == q # <<>>

\* A notify that wakes nobody.
NotifiedLost(pc) == pc

\* empty.notify_one(): a thread blocked in empty.wait is made runnable (it
\* still has to reacquire qlock); with no waiter the call does nothing.
Notified(pc) == IF pc = "take_wait" THEN "take_relock" ELSE pc

\* A put() that does not wait for qlock to be free.
PutAcquireNoLock(t) ==
    /\ cpc[t] = "put_lock"
    /\ qlock' = t
    /\ cpc' = [cpc EXCEPT ![t] = "put_push"]
    /\ UNCHANGED <<ops_queue, done, val, workerVars, ckind, ncalls, promise,
                   la, lb, rv, started, joined, mpc, histVars>>

\* put(), line 26: lock_guard acquires qlock.
PutAcquire(t) ==
    /\ cpc[t] = "put_lock"
    /\ qlock = Free
    /\ qlock' = t
    /\ cpc' = [cpc EXCEPT ![t] = "put_push"]
    /\ UNCHANGED <<ops_queue, done, val, workerVars, ckind, ncalls, promise,
                   la, lb, rv, started, joined, mpc, histVars>>

\* put(), line 27: ops_queue.push(op).
PutPush(t) ==
    /\ cpc[t] = "put_push"
    /\ ops_queue' = Push(ops_queue, OpOf(t))
    /\ putOrder' = Append(putOrder, OpOf(t))
    /\ cpc' = [cpc EXCEPT ![t] = "put_notify"]
    /\ UNCHANGED <<qlock, done, val, workerVars, ckind, ncalls, promise,
                   la, lb, rv, started, joined, mpc, execLog, finished,
                   valAccess, execBy, promWrites, promReads>>

\* put(), line 28: empty.notify_one().
PutNotify(t) ==
    /\ cpc[t] = "put_notify"
    /\ wpc' = Notified(wpc)
    /\ cpc' = [cpc EXCEPT ![t] = "put_unlock"]
    /\ UNCHANGED <<qlock, ops_queue, done, val, cur, wstep, ckind, ncalls,
                   promise, la, lb, rv, started, joined, mpc, histVars>>

\* No operation waiting for the worker: every call returns after its put().
AfterPutNoWait(k) == IF k = Sentinel THEN "join" ELSE "ret"

\* Every operation made to wait for the worker after its put().
AfterPutBlocking(k) == IF k = Sentinel THEN "join" ELSE "await"

\* Where a caller goes when put() has returned: a blocking operation waits on
\* its future, the destructor joins the worker, the others return.
AfterPut(k) ==
    IF k \in BlockingKinds THEN "await"
    ELSE IF k = Sentinel THEN "join"
    ELSE "ret"

\* put(), line 29: the lock_guard releases qlock and put() returns.
PutUnlock(t) ==
    /\ cpc[t] = "put_unlock"
    /\ qlock' = Free
    /\ cpc' = [cpc EXCEPT ![t] = AfterPut(ckind[t])]
    /\ UNCHANGED <<ops_queue, done, val, workerVars, ckind, ncalls, promise,
                   la, lb, rv, started, joined, mpc, histVars>>

\* take(), line 33: unique_lock acquires qlock.
TakeAcquire ==
    /\ wpc = "take_lock"
    /\ qlock = Free
    /\ qlock' = Worker
    /\ wpc' = "take_check"
    /\ UNCHANGED <<ops_queue, done, val, cur, wstep, callerVars, histVars>>

\* take(), line 34: empty.wait(lock, pred) tests the predicate under the lock;
\* when it is false the wait releases qlock and blocks, atomically.
TakeCheck ==
    /\ wpc = "take_check"
    /\ IF WaitPred(ops_queue)
       THEN /\ wpc' = "take_pop"
            /\ UNCHANGED qlock
       ELSE /\ wpc' = "take_wait"
            /\ qlock' = Free
    /\ UNCHANGED <<ops_queue, done, val, cur, wstep, callerVars, histVars>>

\* A condition variable may wake a waiter that nobody notified.
SpuriousWake ==
    /\ wpc = "take_wait"
    /\ wpc' = "take_relock"
    /\ UNCHANGED <<qlock, ops_queue, done, val, cur, wstep, callerVars,
                   histVars>>

\* A single wait in place of the wait with a predicate: the woken thread goes
\* on to front() without testing the queue again.
TakeReacquireNoRecheck ==
    /\ wpc = "take_relock"
    /\ qlock = Free
    /\ qlock' = Worker
    /\ wpc' = "take_pop"
    /\ UNCHANGED <<ops_queue, done, val, cur, wstep, callerVars, histVars>>

\* The woken wait reacquires qlock before it tests the predicate again.
TakeReacquire ==
    /\ wpc = "take_relock"
    /\ qlock = Free
    /\ qlock' = Worker
    /\ wpc' = "take_check"
    /\ UNCHANGED <<ops_queue, done, val, cur, wstep, callerVars, histVars>>

\* take(), lines 36-37: op = ops_queue.front(); ops_queue.pop().
TakePop ==
    /\ wpc = "take_pop"
    /\ cur' = Front(ops_queue)
    /\ ops_queue' = Pop(ops_queue)
    /\ wpc' = "take_unlock"
    /\ UNCHANGED <<qlock, done, val, wstep, callerVars, histVars>>

\* A take() that returns with qlock still owned (the operation run inside it).
TakeUnlockKeepsLock ==
    /\ wpc = "take_unlock"
    /\ wpc' = "exec"
    /\ wstep' = 1
    /\ execLog' = Append(execLog, cur)
    /\ UNCHANGED <<qlock, ops_queue, done, val, cur, callerVars, putOrder,
                   finished, valAccess, execBy, promWrites, promReads>>

\* take(), lines 38-39: return op releases qlock; run() calls the operation.
TakeUnlock ==
    /\ wpc = "take_unlock"
    /\ qlock' = Free
    /\ wpc' = "exec"
    /\ wstep' = 1
    /\ execLog' = Append(execLog, cur)
    /\ UNCHANGED <<ops_queue, done, val, cur, callerVars, putOrder, finished,
                   valAccess, execBy, promWrites, promReads>>

\* ------------------------------------------------------------------ BecomeActiveObject: the worker

\* The value a promise<void> holds once set_value() has run.
Signalled == 0

\* The closure of doSomethingWithReferenceParams signalling before it writes.
BodySignalFirst(k) ==
    CASE k = "doSomething" -> <<"set_value">>
      [] k = "doSomethingElse" -> <<"set_val">>
      [] k = "doSomethingWithParams" -> <<"print">>
      [] k = "doSomethingWithReferenceParams" ->
             <<"print_ref", "signal", "set_a", "set_b">>
      [] k = Sentinel -> <<"set_done">>
      [] OTHER -> <<"bad_call">>

\* The statements of each operation's closure, in program order.
Body(k) ==
    CASE k = "doSomething" -> <<"set_value">>
      [] k = "doSomethingElse" -> <<"set_val">>
      [] k = "doSomethingWithParams" -> <<"print">>
      [] k = "doSomethingWithReferenceParams" ->
             <<"print_ref", "set_a", "set_b", "signal">>
      [] k = Sentinel -> <<"set_done">>
      [] OTHER -> <<"bad_call">>

\* run() going back to take() after the closure's first statement.
OpDoneEarly(op, n) == n = 1

\* The closure returns after its last statement.
OpDone(op, n) == n = Len(Body(op.kind))

\* A loop that never ends: while (true).
LoopExitNever(d) == FALSE

\* The loop test inverted: while (done).
LoopExitInverted(d) == ~d

\* run(), line 66: the loop ends when done is set.
LoopExit(d) == d

\* run(), line 66: while (!done).
LoopTest ==
    /\ wpc = "loop"
    /\ wpc' = IF LoopExit(done) THEN "exited" ELSE "take_lock"
    /\ UNCHANGED <<qlock, ops_queue, done, val, cur, wstep, callerVars,
                   histVars>>

\* Every closure writing the promise of one and the same thread (a promise
\* kept in one place instead of one per call).
PromiseOfShared(op) == "main"

\* The promise a closure captured by reference (&return_val, lines 76 and
\* 112): the local of the thread that built the closure.
PromiseOf(op) == op.owner

\* A worker that goes on with its closures while a call it made is blocked
\* (the closure run on a thread of its own).
WorkerFreeAlways == TRUE

\* The worker is one thread: inside a closure it runs the closure's next
\* statement only when it is not inside a public operation that the closure
\* has called (line 68 returns when the closure returns).
WorkerFree == cpc[Worker] = "idle"

\* run(), line 68: one statement of the operation take() returned.
ExecStep ==
    /\ wpc = "exec"
    /\ WorkerFree
    /\ LET s == Body(cur.kind)[wstep]
           o == cur.owner
           p == PromiseOf(cur)
       IN /\ promise' = IF s = "set_value" THEN [promise EXCEPT ![p] = RetVal]
                        ELSE IF s = "signal"
                             THEN [promise EXCEPT ![p] = Signalled]
                        ELSE promise
          /\ promWrites' = IF s \in {"set_value", "signal"}
                           THEN Append(promWrites,
                                       [by |-> Worker, op |-> cur, call |-> OpOf(p)])
                           ELSE promWrites
          /\ val' = IF s = "set_val" THEN ElseVal ELSE val
          /\ valAccess' = IF s = "set_val"
                          THEN valAccess \cup {<<Worker, "op">>}
                          ELSE valAccess
          /\ la' = IF s = "set_a" THEN [la EXCEPT ![o] = RefA] ELSE la
          /\ lb' = IF s = "set_b" THEN [lb EXCEPT ![o] = RefB] ELSE lb
          /\ done' = IF s = "set_done" THEN TRUE ELSE done
    /\ execBy' = execBy \cup {Worker}
    /\ finished' = IF wstep = Len(Body(cur.kind)) THEN Append(finished, cur)
                    ELSE finished
    /\ IF OpDone(cur, wstep)
       THEN /\ wpc' = "loop"
            /\ wstep' = 0
            /\ cur' = NoOp
       ELSE /\ wstep' = wstep + 1
            /\ UNCHANGED <<wpc, cur>>
    /\ UNCHANGED <<qlock, ops_queue, cpc, ckind, ncalls, rv, started, joined,
                   mpc, putOrder, execLog, promReads>>

\* ------------------------------------------------------------------ BecomeActiveObject: the callers

\* A caller thread that exists and has not ended.
Running(t) == (t = "t1" => started) /\ cpc[t] # "finished"

\* The destructor has been invoked.
DtorInvoked == ckind["main"] = Sentinel

\* A public operation is entered: its closure is built (capturing return_val,
\* a and b by reference where the operation does) and handed to put().
Call(t, k, a, b) ==
    /\ Running(t)
    /\ cpc[t] = "idle"
    /\ ckind' = [ckind EXCEPT ![t] = k]
    /\ ncalls' = [ncalls EXCEPT ![t] = @ + 1]
    /\ cpc' = [cpc EXCEPT ![t] = "put_lock"]
    /\ promise' = [promise EXCEPT ![t] = Unset]
    /\ la' = [la EXCEPT ![t] = IF k = "doSomethingWithReferenceParams" THEN a ELSE @]
    /\ lb' = [lb EXCEPT ![t] = IF k = "doSomethingWithReferenceParams" THEN b ELSE @]
    /\ UNCHANGED <<qlock, ops_queue, done, val, workerVars, rv, started,
                   joined, histVars>>

\* The hazard's hypothesis: a closure running on the worker calls the blocking
\* operation k of its own object. The worker thread enters the operation as
\* any caller does (lines 73-83, 106-121); no closure of the repository does it.
SelfCall(k, a, b) ==
    /\ wpc = "exec"
    /\ k \in BlockingKinds
    /\ Call(Worker, k, a, b)
    /\ UNCHANGED mpc

\* A get() that does not wait for the promise.
FutureReadyAlways(p) == TRUE

\* return_val.get_future().get() may return once the promise has been written.
FutureReady(p) == p # Unset

\* Lines 82 and 120: the caller blocks on the future of its own promise.
Await(t) ==
    /\ cpc[t] = "await"
    /\ FutureReady(promise[t])
    /\ rv' = [rv EXCEPT ![t] = IF ckind[t] = "doSomething" THEN promise[t] ELSE @]
    /\ cpc' = [cpc EXCEPT ![t] = "ret"]
    /\ promReads' = [promReads EXCEPT
                         ![t] = Append(@, [call |-> OpOf(t), value |-> promise[t]])]
    /\ UNCHANGED <<qlock, ops_queue, done, val, workerVars, ckind, ncalls,
                   promise, la, lb, started, joined, mpc, putOrder, execLog,
                   finished, valAccess, execBy, promWrites>>

\* What a read of val by thread t can yield. A read from a thread other than
\* the worker that is concurrent with the worker's write (line 90) is a data
\* race: it may see the old or the new value.
ReadVal(t) ==
    IF t # Worker /\ wpc = "exec" /\ Body(cur.kind)[wstep] = "set_val"
    THEN {val, ElseVal}
    ELSE {val}

\* getVal(), line 62: return val, on the calling thread.
GetVal(t) ==
    /\ Running(t)
    /\ cpc[t] = "idle"
    /\ \E v \in ReadVal(t) : rv' = [rv EXCEPT ![t] = v]
    /\ valAccess' = valAccess \cup {<<t, "direct">>}
    /\ ckind' = [ckind EXCEPT ![t] = "getVal"]
    /\ cpc' = [cpc EXCEPT ![t] = "ret"]
    /\ UNCHANGED <<qlock, ops_queue, done, val, workerVars, ncalls, promise,
                   la, lb, started, joined, putOrder, execLog, finished,
                   execBy, promWrites, promReads>>

\* main()'s assert on what the call it has just made gave back: line 129
\* (assert(i = 999), an assignment, whose value is 999), line 135 and line 137.
\* Only main() asserts.
AssertPasses(t) ==
    IF t = "main" /\ mpc > 0
    THEN CASE ckind[t] = "doSomething" -> RetVal # 0
           [] ckind[t] = "doSomethingWithReferenceParams" ->
                  la[t] = RefA /\ lb[t] = RefB
           [] ckind[t] = "getVal" -> rv[t] = ElseVal
           [] OTHER -> TRUE
    ELSE TRUE

\* An assert of main() fails: abort() ends the process, every thread with it,
\* where it stands; the destructor of active does not run.
AssertAbort ==
    /\ cpc["main"] = "ret"
    /\ ~AssertPasses("main")
    /\ cpc' = [t \in Threads |-> "aborted"]
    /\ wpc' = "aborted"
    /\ UNCHANGED <<qlock, ops_queue, done, val, cur, wstep, ckind, ncalls,
                   promise, la, lb, rv, started, joined, mpc, histVars>>

\* The call has returned; the caller goes on (its locals of the call are gone).
Return(t) ==
    /\ cpc[t] = "ret"
    /\ AssertPasses(t)
    /\ cpc' = [cpc EXCEPT ![t] = "idle"]
    /\ ckind' = [ckind EXCEPT ![t] = "none"]
    /\ promise' = [promise EXCEPT ![t] = Unset]
    /\ la' = [la EXCEPT ![t] = 0]
    /\ lb' = [lb EXCEPT ![t] = 0]
    /\ rv' = [rv EXCEPT ![t] = Unset]
    /\ UNCHANGED <<qlock, ops_queue, done, val, workerVars, ncalls, started,
                   joined, mpc, histVars>>

\* A destructor that sets done itself, on the destroying thread, before it
\* hands the sentinel to put().
DestructSetsDone ==
    /\ cpc["main"] = "idle"
    /\ done' = TRUE
    /\ ckind' = [ckind EXCEPT !["main"] = Sentinel]
    /\ cpc' = [cpc EXCEPT !["main"] = "put_lock"]
    /\ UNCHANGED <<qlock, ops_queue, val, workerVars, ncalls, promise,
                   la, lb, rv, started, joined, histVars>>

\* ~BecomeActiveObject(), line 58: the sentinel closure is handed to put().
Destruct ==
    /\ cpc["main"] = "idle"
    /\ ckind' = [ckind EXCEPT !["main"] = Sentinel]
    /\ cpc' = [cpc EXCEPT !["main"] = "put_lock"]
    /\ UNCHANGED <<qlock, ops_queue, done, val, workerVars, ncalls, promise,
                   la, lb, rv, started, joined, histVars>>

\* A join that does not wait for the worker (a detach in its place).
JoinableAlways(pc) == TRUE

\* std::thread::join returns once the thread's function has returned.
Joinable(pc) == pc = "exited"

\* ~BecomeActiveObject(), line 59: runnable.join(); then main returns.
DtorJoin ==
    /\ cpc["main"] = "join"
    /\ Joinable(wpc)
    /\ cpc' = [cpc EXCEPT !["main"] = "finished"]
    /\ UNCHANGED <<qlock, ops_queue, done, val, workerVars, ckind, ncalls,
                   promise, la, lb, rv, started, joined, mpc, histVars>>

\* main(), line 131: std::thread t1(...).
Spawn ==
    /\ cpc["main"] = "idle"
    /\ ~started
    /\ started' = TRUE
    /\ UNCHANGED <<qlock, ops_queue, done, val, workerVars, cpc, ckind,
                   ncalls, promise, la, lb, rv, joined, histVars>>

\* main(), line 136: t1.join().
JoinT1 ==
    /\ cpc["main"] = "idle"
    /\ started
    /\ ~joined
    /\ cpc["t1"] = "finished"
    /\ joined' = TRUE
    /\ UNCHANGED <<qlock, ops_queue, done, val, workerVars, cpc, ckind,
                   ncalls, promise, la, lb, rv, started, histVars>>

\* The function thread t1 runs returns.
ThreadExit(t) ==
    /\ t = "t1"
    /\ started
    /\ cpc[t] = "idle"
    /\ cpc' = [cpc EXCEPT ![t] = "finished"]
    /\ UNCHANGED <<qlock, ops_queue, done, val, workerVars, ckind, ncalls,
                   promise, la, lb, rv, started, joined, histVars>>

\* ------------------------------------------------------------------ specifications

\* The steps inside put(), take(), run() and the blocking waits.
CallerStep(t) ==
    \/ PutAcquire(t)
    \/ PutPush(t)
    \/ PutNotify(t)
    \/ PutUnlock(t)
    \/ Await(t)
    \/ Return(t)

WorkerStep ==
    \/ LoopTest
    \/ TakeAcquire
    \/ TakeCheck
    \/ TakeReacquire
    \/ TakePop
    \/ TakeUnlock
    \/ ExecStep

\* Operations issued so far by all callers.
Issued == ncalls["main"] + ncalls["t1"]

\* Any client: the caller threads issue up to n operations of their choice,
\* and the main thread destroys the object, at any time.
ClientStep(n) ==
    \/ \E t \in Callers, k \in OpKinds, ab \in LocalPairs :
          Issued < n /\ Call(t, k, ab[1], ab[2]) /\ UNCHANGED mpc
    \/ ~DtorInvoked /\ Destruct /\ UNCHANGED mpc

\* The steps of the object itself, whoever the client is.
ObjectStep ==
    \/ \E t \in Callers : CallerStep(t)
    \/ DtorJoin
    \/ WorkerStep
    \/ SpuriousWake

Next ==
    \/ ClientStep(MaxCalls)
    \/ ObjectStep

FairNext ==
    \/ ClientStep(MaxCallsFair)
    \/ ObjectStep

\* Any client, with closures that may call a blocking operation of their own
\* object: the worker is then one more thread going through put() and get().
SelfNext ==
    \/ ClientStep(MaxCallsFair)
    \/ \E k \in BlockingKinds, ab \in LocalPairs : SelfCall(k, ab[1], ab[2])
    \/ \E t \in Threads : CallerStep(t)
    \/ DtorJoin
    \/ WorkerStep
    \/ SpuriousWake

\* main(), lines 127-138, statement by statement.
MainStmt ==
    /\ cpc["main"] = "idle"
    /\ mpc < Len(MainProgram)
    /\ mpc' = mpc + 1
    /\ LET s == MainProgram[mpc + 1]
       IN \/ s \in OpKinds /\ Call("main", s, MainA, MainB)
          \/ s = "spawn" /\ Spawn
          \/ s = "join" /\ JoinT1
          \/ s = "getVal" /\ GetVal("main")
          \/ s = "destruct" /\ Destruct

\* Thread t1, line 131: one call of doSomethingElse, then the thread ends.
T1Run ==
    \/ ncalls["t1"] = 0 /\ Call("t1", "doSomethingElse", 0, 0) /\ UNCHANGED mpc
    \/ ncalls["t1"] = 1 /\ ThreadExit("t1") /\ UNCHANGED mpc

MainNext ==
    \/ MainStmt
    \/ T1Run
    \/ ObjectStep
    \/ AssertAbort

\* The code's scheduling: a thread that can take a step eventually takes it,
\* and a thread that asks for qlock gets it when the lock is released again
\* and again (a spuriously woken worker cannot take it every time). Nothing
\* obliges a client to issue a call, nor a condition variable to wake
\* spuriously.
Fairness ==
    /\ WF_vars(WorkerStep)
    /\ WF_vars(DtorJoin)
    /\ \A t \in Callers : WF_vars(CallerStep(t)) /\ SF_vars(PutAcquire(t))

Spec == Init /\ [][Next]_vars

FairSpec == Init /\ [][FairNext]_vars /\ Fairness

\* The callers are scheduled fairly; the worker is only known to leave the
\* straight-line code it runs while it owns qlock (lines 34-39). Anywhere else
\* it may be slow, blocked or stopped for good.
CallerFairSpec ==
    /\ Init /\ [][FairNext]_vars
    /\ \A t \in Callers : WF_vars(CallerStep(t)) /\ SF_vars(PutAcquire(t))
    /\ WF_vars(TakeCheck \/ TakePop \/ TakeUnlock)

SelfSpec == Init /\ [][SelfNext]_vars

MainSpec == InitMain /\ [][MainNext]_vars

FairMainSpec ==
    /\ InitMain /\ [][MainNext]_vars
    /\ Fairness /\ WF_vars(MainStmt) /\ WF_vars(T1Run) /\ WF_vars(AssertAbort)

\* ------------------------------------------------------------------ claims

\* Operations that precede the sentinel in the queue's push order, or all of
\* them when no sentinel has been pushed.
BeforeSentinel(op) ==
    ~ \E i, j \in 1..Len(putOrder) :
          i < j /\ putOrder[i].kind = Sentinel /\ putOrder[j] = op

Put(op) == op \in SeqToSet(putOrder)
Executed(op) == op \in SeqToSet(finished)

\* C1: the worker begins operations in exactly the order their push ran under
\* the lock (the executed sequence is a prefix of the pushed sequence), and two
\* operations of the same thread are executed in that thread's call order.
C1_FifoDispatch ==
    /\ IsPrefix(execLog, putOrder)
    /\ \A i, j \in 1..Len(execLog) :
          (i < j /\ execLog[i].owner = execLog[j].owner)
              => execLog[i].seq < execLog[j].seq

\* Three operations have run: two of one thread and one of the other.
C1_Witness ==
    /\ Len(finished) = 3
    /\ \E i, j \in 1..3 : i < j /\ finished[i].owner = finished[j].owner
                          /\ finished[i].kind \in OpKinds
                          /\ finished[j].kind \in OpKinds
    /\ \E i, j \in 1..3 : finished[i].owner # finished[j].owner

\* C2: when the destructor's join has returned, every operation pushed before
\* the sentinel has run to its end on the worker.
C2_ShutdownDrains ==
    cpc["main"] = "finished" =>
        \A i \in 1..Len(putOrder) :
            putOrder[i].kind = Sentinel =>
                \A j \in 1..(i - 1) : Executed(putOrder[j])

\* The destructor has returned with two operations pushed before the sentinel.
C2_Witness ==
    /\ cpc["main"] = "finished"
    /\ Len(putOrder) >= 3
    /\ putOrder[3].kind = Sentinel

\* Some operation whose put has returned has not been executed yet.
Pending ==
    \E i \in 1..Len(putOrder) : ~Executed(putOrder[i])

\* The same, among the operations pushed before the sentinel.
PendingBeforeSentinel ==
    \E i \in 1..Len(putOrder) :
        BeforeSentinel(putOrder[i]) /\ ~Executed(putOrder[i])

\* C3 as stated: every operation whose put has returned is eventually
\* executed by the worker, in every interleaving of the callers, the worker
\* and the destructor. (Being pushed and being executed are both permanent, so
\* this says: whenever an operation is pending, a moment follows at which
\* none is.)
C3_NoOperationDropped == Pending ~> ~Pending

\* C3, amended: every operation pushed before the destructor's sentinel (the
\* sentinel included, and every operation when the object is never destroyed)
\* is eventually executed; and the worker is never left waiting in take() on
\* a non-empty queue unless the thread that pushed is about to notify it.
C3_NoOperationDroppedBeforeSentinel ==
    /\ PendingBeforeSentinel ~> ~PendingBeforeSentinel
    /\ [](wpc = "take_wait" /\ ops_queue # <<>>
              => \E t \in Callers : cpc[t] = "put_notify")

\* An operation is pushed while the worker is blocked in the wait of take().
C3_Witness ==
    /\ wpc = "take_wait"
    /\ ops_queue # <<>>
    /\ \E t \in Callers : cpc[t] = "put_notify" /\ BeforeSentinel(OpOf(t))

\* C4: once the destructor has been invoked its join eventually returns, and
\* the worker never leaves its loop before the sentinel has executed and set
\* done.
C4_DeterministicTermination ==
    /\ DtorInvoked ~> (cpc["main"] = "finished")
    /\ [](wpc = "exited" =>
              /\ done
              /\ \E i \in 1..Len(finished) : finished[i].kind = Sentinel)

\* The worker has left its loop and the destructor's join has returned.
C4_Witness ==
    /\ wpc = "exited"
    /\ done
    /\ cpc["main"] = "finished"

\* C5: the worker is the only thread that executes operations, and it runs
\* each one to its end before it takes the next: the operations begun are the
\* operations finished, plus the one being executed.
C5_SerializedExecution ==
    /\ execBy \subseteq {Worker}
    /\ execLog = IF wpc = "exec" THEN Append(finished, cur) ELSE finished

\* The worker is in the middle of a four-statement operation, after another
\* operation has finished and while a third one is queued.
C5_Witness ==
    /\ wpc = "exec"
    /\ cur.kind = "doSomethingWithReferenceParams"
    /\ wstep = 3
    /\ Len(finished) >= 1
    /\ ops_queue # <<>>

\* C6: val is accessed by the worker only, and only while it executes an
\* operation taken from the queue; getVal() included.
C6_StateConfinement ==
    \A acc \in valAccess : acc = <<Worker, "op">>

\* C7: a doSomething() call returns 999 and not before the worker has executed
\* its operation; and a call whose operation was pushed before the sentinel
\* eventually returns.
C7_BlockingResult ==
    /\ [](\A t \in Callers :
              (cpc[t] = "ret" /\ ckind[t] = "doSomething")
                  => (rv[t] = RetVal /\ Executed(OpOf(t))))
    /\ \A t \in Callers :
          (ckind[t] = "doSomething" /\ Put(OpOf(t)) /\ BeforeSentinel(OpOf(t)))
              ~> (ckind[t] = "doSomething" /\ cpc[t] = "ret")

\* Thread t1's doSomething() has returned 999 although the destructor, running
\* on the main thread, has already pushed its sentinel.
C7_Witness ==
    /\ cpc["t1"] = "ret"
    /\ ckind["t1"] = "doSomething"
    /\ rv["t1"] = RetVal
    /\ \E i \in 1..Len(putOrder) : putOrder[i].kind = Sentinel

\* C8: when doSomethingWithReferenceParams(a, b) has returned the caller's a
\* is 1234 and its b is 5678, and the worker has run the whole operation.
C8_ReferenceMutationVisible ==
    \A t \in Callers :
        (cpc[t] = "ret" /\ ckind[t] = "doSomethingWithReferenceParams")
            => (la[t] = RefA /\ lb[t] = RefB /\ Executed(OpOf(t)))

\* Both caller threads have come back from doSomethingWithReferenceParams.
C8_Witness ==
    \A t \in Callers :
        /\ cpc[t] = "ret"
        /\ ckind[t] = "doSomethingWithReferenceParams"
        /\ la[t] = RefA

\* C9: in main(), the getVal() after doSomethingWithReferenceParams has
\* returned and t1 has been joined yields 2.0 (the assertion of line 137).
C9_MainFinalAssertion ==
    (cpc["main"] = "ret" /\ ckind["main"] = "getVal" /\ joined)
        => rv["main"] = ElseVal

\* The operations that do not wait for a result.
AsyncKinds == OpKinds \ BlockingKinds

\* C10: the worker owns qlock only inside the critical section of take(), never
\* while it executes an operation, waits or has exited; a fire-and-forget call
\* never waits on a future; and once such a call has been entered it returns,
\* with its operation in the queue's push order, whatever the worker does
\* outside that critical section.
C10_AsyncNeverWaits ==
    /\ [](qlock = Worker => wpc \in {"take_check", "take_pop", "take_unlock"})
    /\ [](\A t \in Callers :
              ckind[t] \in AsyncKinds
                  => (cpc[t] # "await" /\ (cpc[t] = "ret" => Put(OpOf(t)))))
    /\ \A t \in Callers :
          (ckind[t] \in AsyncKinds /\ cpc[t] = "put_lock")
              ~> (ckind[t] \in AsyncKinds /\ cpc[t] = "ret")

\* A fire-and-forget call has returned while the worker is in the middle of
\* another thread's operation, its own operation still waiting in the queue.
C10_Witness ==
    \E t \in Callers :
        /\ cpc[t] = "ret"
        /\ ckind[t] \in AsyncKinds
        /\ wpc = "exec"
        /\ wstep >= 2
        /\ cur.owner # t
        /\ OpOf(t) \in SeqToSet(ops_queue)

\* C11: take() goes on to front() and pop() only with the lock owned and the
\* queue not empty; a woken wait, spuriously woken or not, always tests the
\* queue again and goes back to waiting when it is empty; and the step that
\* removes an element returns the head and leaves the rest of the queue.
C11_TakeNeverOnEmpty ==
    /\ [](wpc \in {"take_pop"} => (ops_queue # <<>> /\ qlock = Worker))
    /\ [][wpc = "take_relock" => wpc' \in {"take_relock", "take_check"}]_vars
    /\ [][(wpc = "take_check" /\ ops_queue = <<>>)
              => wpc' \in {"take_check", "take_wait"}]_vars
    /\ [][(wpc = "take_pop" /\ wpc' # wpc)
              => /\ ops_queue # <<>>
                 /\ cur' = Head(ops_queue)
                 /\ ops_queue' = Tail(ops_queue)
                 /\ Len(ops_queue') = Len(ops_queue) - 1]_vars

\* The worker has been woken with the queue empty (nobody pushed: a spurious
\* wake-up), after it has already executed an operation.
C11_Witness ==
    /\ wpc = "take_relock"
    /\ ops_queue = <<>>
    /\ Len(finished) >= 1

\* C12: the worker does not own qlock while it executes an operation, nor
\* while it waits for the queue to become non-empty.
C12_LockNotHeldAcrossExecution ==
    (wpc \in {"exec", "take_wait"}) => qlock # Worker

\* A producer is inside put(), owning qlock, while the worker is in the middle
\* of an operation.
C12_Witness ==
    /\ wpc = "exec"
    /\ wstep >= 2
    /\ \E t \in Callers : qlock = t /\ cpc[t] = "put_notify"

\* A thread is inside a critical section on ops_queue.
InCritical(t) ==
    IF t = Worker THEN wpc \in {"take_check", "take_pop", "take_unlock"}
    ELSE cpc[t] \in {"put_push", "put_notify", "put_unlock"}

\* C13: at most one thread is inside a critical section on ops_queue, and it
\* is the thread that owns qlock.
C13_QueueMutualExclusion ==
    /\ Cardinality({t \in Threads : InCritical(t)}) <= 1
    /\ \A t \in Threads : InCritical(t) => qlock = t

\* One producer is inside its critical section while the other producer and
\* the worker both wait for qlock.
C13_Witness ==
    /\ cpc["main"] = "put_push"
    /\ cpc["t1"] = "put_lock"
    /\ wpc \in {"take_lock", "take_relock"}

\* The operation take() has removed and not yet returned.
Taken == IF wpc = "take_unlock" THEN <<cur>> ELSE <<>>

\* C14: no operation is executed twice, and every operation pushed is either
\* executed, the one take() is returning, or still in the queue, exactly once:
\* each take removes exactly the operation it returns.
C14_ConsumedExactlyOnce ==
    /\ \A i, j \in 1..Len(execLog) : execLog[i] = execLog[j] => i = j
    /\ putOrder = execLog \o Taken \o ops_queue

\* Two operations have been executed and a third is still queued.
C14_Witness ==
    /\ Len(execLog) = 2
    /\ Len(finished) = 2
    /\ Len(ops_queue) = 1

\* The set_value calls made on the promise of call c, and the get() calls of
\* thread t that returned for it.
WritesOf(c) == {i \in 1..Len(promWrites) : promWrites[i].call = c}
ReadsOf(t, c) == {i \in 1..Len(promReads[t]) : promReads[t][i].call = c}

\* C15: every write of a promise is made by the worker while it executes the
\* blocking call's own operation, at most once per call; every read is made
\* by the thread that owns the call, of a promise already written, at most
\* once per call; a caller still blocked has read nothing, and a blocking call
\* that has returned has had exactly one write and one read.
C15_ResultChannelDiscipline ==
    /\ \A i \in 1..Len(promWrites) :
          /\ promWrites[i].by = Worker
          /\ promWrites[i].op = promWrites[i].call
          /\ promWrites[i].op.kind \in BlockingKinds
          /\ Cardinality(WritesOf(promWrites[i].call)) = 1
    /\ \A t \in Callers : \A i \in 1..Len(promReads[t]) :
          LET c == promReads[t][i].call
          IN /\ c.owner = t
             /\ Cardinality(WritesOf(c)) = 1
             /\ Cardinality(ReadsOf(t, c)) = 1
             /\ promReads[t][i].value # Unset
    /\ \A t \in Callers :
          /\ cpc[t] = "await" => ReadsOf(t, OpOf(t)) = {}
          /\ (cpc[t] = "ret" /\ ckind[t] \in BlockingKinds)
                 => /\ Cardinality(WritesOf(OpOf(t))) = 1
                    /\ Cardinality(ReadsOf(t, OpOf(t))) = 1

\* Both callers have had a blocking call answered, thread t1 a second one
\* being still blocked on its promise.
C15_Witness ==
    /\ Len(promWrites) = 2
    /\ promWrites[1].call.owner # promWrites[2].call.owner
    /\ Len(promReads["main"]) = 1
    /\ Len(promReads["t1"]) = 1
    /\ cpc["t1"] = "await"

\* The worker is about to execute a statement of a closure that captured
\* locals of its caller by reference (return_val, and a and b for
\* doSomethingWithReferenceParams).
BorrowedAccess == wpc = "exec" /\ cur.kind \in BlockingKinds

\* C16: whenever the worker is inside a closure that borrowed locals of its
\* caller, that caller is blocked on the future of this very call (its frame
\* is live and it touches neither a nor b) and the promise is still unwritten,
\* so no access to a or b follows the signal; a and b of a blocked caller
\* change only by a statement of its own closure, before the signal.
C16_BorrowedCaptureSafety ==
    /\ [](BorrowedAccess =>
              /\ cpc[cur.owner] = "await"
              /\ OpOf(cur.owner) = cur
              /\ promise[cur.owner] = Unset)
    /\ [][\A t \in Callers :
              (la'[t] # la[t] \/ lb'[t] # lb[t]) /\ cpc[t] \notin {"idle", "ret"}
                  => /\ BorrowedAccess
                     /\ cur = OpOf(t)
                     /\ cpc[t] = "await" /\ cpc'[t] = "await"
                     /\ promise[t] = Unset /\ promise'[t] = Unset]_vars

\* The worker is about to write b through the reference while the caller,
\* whose a it has already overwritten, is blocked on the future.
C16_Witness ==
    /\ BorrowedAccess
    /\ cur.kind = "doSomethingWithReferenceParams"
    /\ wstep = 3
    /\ la[cur.owner] = RefA
    /\ lb[cur.owner] # RefB
    /\ cpc[cur.owner] = "await"

\* An operation pushed after the sentinel.
AfterSentinel(op) == Put(op) /\ ~BeforeSentinel(op)

\* C18: the sentinel is the last operation the worker takes and executes; an
\* operation pushed after the sentinel stays in the queue, is never taken and
\* never executed; the caller of a blocking operation pushed after the
\* sentinel stays blocked on its future; the worker, once it has left its
\* loop, takes no further step and nothing leaves the queue.
C18_AfterSentinelNeverServiced ==
    /\ [](\A i \in 1..Len(execLog) :
              execLog[i].kind = Sentinel => i = Len(execLog))
    /\ [](\A i \in 1..Len(putOrder) :
              AfterSentinel(putOrder[i])
                  => /\ putOrder[i] \in SeqToSet(ops_queue)
                     /\ putOrder[i] \notin SeqToSet(execLog)
                     /\ putOrder[i] # cur
                     /\ ~Executed(putOrder[i]))
    /\ [](\A t \in Callers :
              (ckind[t] \in BlockingKinds /\ AfterSentinel(OpOf(t)))
                  => /\ cpc[t] \in {"put_notify", "put_unlock", "await"}
                     /\ promise[t] = Unset)
    /\ [][wpc = "exited" =>
              UNCHANGED workerVars /\ IsPrefix(ops_queue, ops_queue')]_vars

\* Thread t1 is blocked on the future of an operation pushed after the
\* sentinel, while the worker has exited and the destructor has returned.
C18_Witness ==
    /\ cpc["t1"] = "await"
    /\ AfterSentinel(OpOf("t1"))
    /\ wpc = "exited"
    /\ cpc["main"] = "finished"

\* The sentinel operation has run.
SentinelExecuted == \E i \in 1..Len(finished) : finished[i].kind = Sentinel

\* C19: done is false exactly until the sentinel operation has run; it is
\* set only by a statement of the sentinel executing on the worker; it never
\* goes back to false; the worker goes from the sentinel straight to its loop
\* test, and a loop test that finds done set leaves the loop.
C19_DoneFlag ==
    /\ [](done <=> SentinelExecuted)
    /\ [][done => done']_vars
    /\ [][done' # done =>
              /\ wpc = "exec" /\ cur.kind = Sentinel
              /\ Body(cur.kind)[wstep] = "set_done"
              /\ wpc' = "loop"
              /\ \A t \in Callers : cpc'[t] = cpc[t]]_vars
    /\ [][(wpc = "loop" /\ done /\ wpc' # wpc) => wpc' = "exited"]_vars
    /\ [][(wpc = "loop" /\ ~done /\ wpc' # wpc) => wpc' = "take_lock"]_vars

\* The sentinel has just run: done is set and the worker is at its loop test,
\* the destructor waiting in join.
C19_Witness ==
    /\ done
    /\ wpc = "loop"
    /\ cpc["main"] = "join"
    /\ Len(finished) >= 2

\* The worker is inside a blocking operation that one of its closures called.
SelfCalled == cpc[Worker] # "idle"

\* C17: once a closure running on the worker has called a blocking operation
\* of its own object, the worker stays inside that call for ever: it arrives
\* at the future and never leaves it, the call never returns, the operation
\* it pushed is never taken nor executed, the closure it was running never
\* finishes, and nothing more is taken or executed.
C17_SelfDeadlock ==
    /\ [](cpc[Worker] \in {"idle", "put_lock", "put_push", "put_notify",
                           "put_unlock", "await"})
    /\ [](SelfCalled =>
              /\ wpc = "exec" /\ cur # NoOp
              /\ ckind[Worker] \in BlockingKinds
              /\ promise[Worker] = Unset
              /\ OpOf(Worker) \notin SeqToSet(execLog)
              /\ ~Executed(OpOf(Worker))
              /\ ~Executed(cur))
    /\ [][SelfCalled =>
              /\ SelfCalled'
              /\ UNCHANGED workerVars
              /\ execLog' = execLog
              /\ finished' = finished
              /\ IsPrefix(ops_queue, ops_queue')]_vars
    /\ [][cpc[Worker] = "await" => cpc'[Worker] = "await"]_vars

\* The worker is blocked on the future of its own call, whose operation is at
\* the head of the queue with a later operation behind it, and a caller is
\* blocked on a future as well.
C17_Witness ==
    /\ cpc[Worker] = "await"
    /\ Len(ops_queue) >= 2
    /\ Head(ops_queue) = OpOf(Worker)
    /\ \E t \in Callers : cpc[t] = "await"

\* The process has been ended by a failed assert.
Aborted == cpc["main"] = "aborted"

\* main() has come to its end: its two blocking calls have returned, t1 has
\* been joined, the destructor's join has returned, the queue is empty and
\* every operation pushed has been executed.
DemoEnd ==
    /\ cpc["main"] = "finished"
    /\ Len(promReads["main"]) = 2
    /\ joined
    /\ wpc = "exited"
    /\ ops_queue = <<>>
    /\ ~Pending

\* C20: under fair scheduling every run of main() comes to its end, with both
\* blocking calls returned, t1 joined, the worker joined, the queue empty and
\* no operation left unexecuted.
C20_DemoDeadlockFree == <>DemoEnd

\* What the program does guarantee: it never hangs; it ends as above or by
\* the assert of line 137 failing.
DemoEndsOrAborts == <>(DemoEnd \/ Aborted)

====
